---- MODULE Spec2Model ----
(***************************************************************************)
(* A model of rips (src/src/lib.rs, src/src/utils.rs): the safe wrapper    *)
(* over the native image library.  The native library, glib and libc are   *)
(* the environment: every native result (null or handle, status code,      *)
(* output allocation, reported width and height, internal references) is   *)
(* an input chosen by the environment.                                     *)
(***************************************************************************)
EXTENDS Integers, Sequences, FiniteSets

\* ------------------------------------------------------------- bounds
NThreads == 2
MaxHandles == 2
MaxDim == 4
MantBits == 2

Threads == 1..NThreads
Handles == 1..MaxHandles
NULL == 0

VARIABLES
  once,       \* state of `static INIT: Once` (lib.rs:105)
  winner,     \* thread whose closure call_once runs (0: none yet)
  initLog,    \* native calls made inside the call_once closure, in order
  pc,         \* pc[t]: where thread t is inside its current call
  cur,        \* cur[t]: the call thread t is in, or the last one it returned from
  nat,        \* nat[h]: the native object behind handle h
  wrappers,   \* wrappers[p]: number of live Image values whose field 0 is p
  unrefs,     \* unrefs[h]: number of g_object_unref(h) calls issued
  bufs,       \* bufs[h]: the boxed caller buffer registered on h by from_memory
  aborted,    \* the process was aborted
  inp         \* the image size and target of the resize_to under study (SpecResize)

vars == <<once, winner, initLog, pc, cur, nat, wrappers, unrefs, bufs, aborted, inp>>

\* ------------------------------------------------------------ strings
\* Byte strings are sequences of byte values.
NameDefault == <<114, 105, 112, 115>>
NameApp == <<97>>
NameNul == <<97, 0, 98>>
PathOk == <<47, 97>>
PathNul == <<47, 0, 97>>
SuffixOk == <<46, 112>>
SuffixNul == <<46, 0>>

HasNul(s) == \E i \in 1..Len(s) : s[i] = 0

\* Variant: the conversion stops at the first nul instead of failing.
CStringNewTruncate(s) ==
  [ok |-> TRUE,
   bytes |-> Append(SubSeq(s, 1, (CHOOSE i \in 1..(Len(s) + 1) :
                                   /\ (i <= Len(s) => s[i] = 0)
                                   /\ \A j \in 1..(i - 1) : s[j] # 0) - 1), 0)]

\* CString::new: Err(NulError) on an interior nul, else the bytes plus a terminator.
CStringNew(s) ==
  IF HasNul(s) THEN [ok |-> FALSE, bytes |-> <<>>]
  ELSE [ok |-> TRUE, bytes |-> Append(s, 0)]

\* CStr::from_bytes_with_nul_unchecked(b"rips\0")
RipsLiteral == Append(NameDefault, 0)

None == [some |-> FALSE]
Some(v) == [some |-> TRUE, val |-> v]

\* InitOptions (lib.rs:79-94): both fields optional.
InitOptionsDefault == [name |-> None, leak_checks_on |-> None]
\* The options callers pass in the model.
InitOptionsTried ==
  { InitOptionsDefault,
    [name |-> Some(NameApp), leak_checks_on |-> Some(TRUE)],
    [name |-> Some(NameNul), leak_checks_on |-> None] }

\* ------------------------------------------------------- thread records
\* A call record: the operation and its argument, the native result it saw
\* (sig: <<>> until a native call has answered, then <<pointer or status>>),
\* what it returned (res), the native functions it invoked in order (log), the
\* handle inside the Image it returned (out), the variadic argument lists it
\* passed (calls) and the output allocation of to_buffer (alloc).
NoCall ==
  [kind |-> "none", arg |-> <<>>, sig |-> <<>>, res |-> "none",
   log |-> <<>>, out |-> NULL, calls |-> <<>>, alloc |-> "none"]

NewCall(kind, arg) == [NoCall EXCEPT !.kind = kind, !.arg = arg, !.res = "pending"]

\* ------------------------------------------------------- native objects
FreeObj == [st |-> "free", refs |-> 0, parent |-> NULL]
NoBuf == [st |-> "none", frees |-> 0]

FreeHandles == {h \in Handles : nat[h].st = "free"}

\* The next handle value the native library hands out.
Fresh == CHOOSE h \in FreeHandles : \A g \in FreeHandles : h <= g

NoInput == [W |-> 1, H |-> 1, width |-> None, height |-> None]

Init ==
  /\ once = "Incomplete"
  /\ winner = 0
  /\ initLog = <<>>
  /\ pc = [t \in Threads |-> "idle"]
  /\ cur = [t \in Threads |-> NoCall]
  /\ nat = [h \in Handles |-> FreeObj]
  /\ wrappers = [p \in {NULL} \cup Handles |-> 0]
  /\ unrefs = [h \in Handles |-> 0]
  /\ bufs = [h \in Handles |-> NoBuf]
  /\ aborted = FALSE
  /\ inp = NoInput

\* ------------------------------------------------ initialization guard
\* Variant of the closure below: a name with an embedded nul is cut at the nul
\* and passed on.
InitClosureCallsTruncate(opts) ==
  LET o == IF opts.some THEN opts.val ELSE InitOptionsDefault
      name == IF o.name.some THEN CStringNewTruncate(o.name.val).bytes ELSE RipsLiteral
  IN  <<<<"vips_init", name>>>>
        \o (IF o.leak_checks_on.some
              THEN <<<<"vips_leak_set", IF o.leak_checks_on.val THEN 1 ELSE 0>>>>
              ELSE <<>>)
        \o <<<<"atexit", "cleanup">>>>

\* The closure handed to INIT.call_once (lib.rs:106-123): the native calls it
\* makes for options `opts`, up to and including atexit.
InitClosureCalls(opts) ==
  LET o == IF opts.some THEN opts.val ELSE InitOptionsDefault
      conv == IF o.name.some THEN CStringNew(o.name.val) ELSE [ok |-> FALSE, bytes |-> <<>>]
      name == IF conv.ok THEN conv.bytes ELSE RipsLiteral
  IN  <<<<"vips_init", name>>>>
        \o (IF o.leak_checks_on.some
              THEN <<<<"vips_leak_set", IF o.leak_checks_on.val THEN 1 ELSE 0>>>>
              ELSE <<>>)
        \o <<<<"atexit", "cleanup">>>>

Names(calls) == [i \in 1..Len(calls) |-> calls[i][1]]

\* Where a thread goes once call_once has returned normally.
AfterGate(t, c) ==
  IF c.kind = "initialize_with_options"
    THEN /\ pc' = [pc EXCEPT ![t] = "idle"]
         /\ cur' = [cur EXCEPT ![t] = [c EXCEPT !.res = "Unit"]]
    ELSE /\ pc' = [pc EXCEPT ![t] = "body"]
         /\ cur' = [cur EXCEPT ![t] = c]

\* Variant: a Once created per call, so every caller finds it new.
CallOnceLocal(t, c) ==
  /\ once' = "Running"
  /\ winner' = t
  /\ pc' = [pc EXCEPT ![t] = "init"]
  /\ cur' = [cur EXCEPT ![t] = c]

\* Variant: a flag set when initialization starts; later callers do not wait.
CallOnceNoWait(t, c) ==
  IF once = "Incomplete"
    THEN /\ once' = "Running"
         /\ winner' = t
         /\ pc' = [pc EXCEPT ![t] = "init"]
         /\ cur' = [cur EXCEPT ![t] = c]
    ELSE /\ AfterGate(t, c)
         /\ UNCHANGED <<once, winner>>

\* INIT.call_once as seen by a caller arriving with call record c (lib.rs:106).
CallOnce(t, c) ==
  CASE once = "Incomplete" ->
         /\ once' = "Running"
         /\ winner' = t
         /\ pc' = [pc EXCEPT ![t] = "init"]
         /\ cur' = [cur EXCEPT ![t] = c]
    [] once = "Running" ->
         /\ pc' = [pc EXCEPT ![t] = "waiting"]
         /\ cur' = [cur EXCEPT ![t] = c]
         /\ UNCHANGED <<once, winner>>
    [] once = "Complete" ->
         /\ AfterGate(t, c)
         /\ UNCHANGED <<once, winner>>
    [] once = "Poisoned" ->
         /\ pc' = [pc EXCEPT ![t] = "panicked"]
         /\ cur' = [cur EXCEPT ![t] = [c EXCEPT !.res = "panic"]]
         /\ UNCHANGED <<once, winner>>

Idle(t) == ~aborted /\ pc[t] = "idle"

\* pub fn initialize_with_options(opts) (lib.rs:100-102)
initialize_with_options(t, opts) ==
  /\ Idle(t)
  /\ CallOnce(t, NewCall("initialize_with_options", Some(opts)))
  /\ UNCHANGED <<initLog, nat, wrappers, unrefs, bufs, aborted, inp>>

\* Image::from_file up to its initialize() call (lib.rs:159-160)
from_file(t, path) ==
  /\ Idle(t)
  /\ CallOnce(t, NewCall("from_file", path))
  /\ UNCHANGED <<initLog, nat, wrappers, unrefs, bufs, aborted, inp>>

\* Image::from_memory up to its initialize() call (lib.rs:171-183)
from_memory(t) ==
  /\ Idle(t)
  /\ CallOnce(t, NewCall("from_memory", <<>>))
  /\ UNCHANGED <<initLog, nat, wrappers, unrefs, bufs, aborted, inp>>

\* The options the call_once closure of thread t captured.
CapturedOpts(t) ==
  IF cur[t].kind = "initialize_with_options" THEN cur[t].arg ELSE None

\* The winning thread runs the closure; assert_eq!(atexit(cleanup), 0) panics
\* when atexit fails, which poisons the Once (lib.rs:106-123).
call_once_closure(t) ==
  /\ ~aborted
  /\ pc[t] = "init"
  /\ LET calls == InitClosureCalls(CapturedOpts(t))
         c == [cur[t] EXCEPT !.log = @ \o Names(calls)]
     IN  /\ initLog' = initLog \o calls
         /\ \E atexitOk \in BOOLEAN :
              IF atexitOk
                THEN /\ once' = "Complete"
                     /\ AfterGate(t, c)
                ELSE /\ once' = "Poisoned"
                     /\ pc' = [pc EXCEPT ![t] = "panicked"]
                     /\ cur' = [cur EXCEPT ![t] = [c EXCEPT !.res = "panic"]]
  /\ UNCHANGED <<winner, nat, wrappers, unrefs, bufs, aborted, inp>>

\* A caller blocked in call_once is released when the closure has finished.
call_once_wake(t) ==
  /\ ~aborted
  /\ pc[t] = "waiting"
  /\ once \in {"Complete", "Poisoned"}
  /\ IF once = "Complete"
       THEN AfterGate(t, cur[t])
       ELSE /\ pc' = [pc EXCEPT ![t] = "panicked"]
            /\ cur' = [cur EXCEPT ![t] = [cur[t] EXCEPT !.res = "panic"]]
  /\ UNCHANGED <<once, winner, initLog, nat, wrappers, unrefs, bufs, aborted, inp>>

\* ------------------------------------------------------ native runtime
\* post_close (lib.rs:178-181), run by the native "postclose" signal of h when a
\* handler was connected: it rebuilds the Box from user_data and drops it.
post_close(b, h) ==
  IF b[h].st = "none" THEN b
  ELSE [b EXCEPT ![h] = [st |-> "freed", frees |-> b[h].frees + 1]]

\* g_object_unref(h) in the native runtime: the reference count drops; at zero
\* the object closes, emits postclose, and releases the reference it held on
\* the image it was computed from.  g_object_unref(NULL) returns at once.
RECURSIVE g_object_unref(_, _, _)
g_object_unref(n, b, h) ==
  IF h = NULL \/ n[h].st # "live" THEN [nat |-> n, bufs |-> b]
  ELSE IF n[h].refs > 1 THEN [nat |-> [n EXCEPT ![h].refs = @ - 1], bufs |-> b]
  ELSE g_object_unref([n EXCEPT ![h] = [@ EXCEPT !.st = "closed", !.refs = 0]],
                      post_close(b, h), n[h].parent)

\* impl Drop for Image (lib.rs:138-144) applied to a wrapper holding p.
ImageDrop(p) ==
  LET r == g_object_unref(nat, bufs, p)
  IN  /\ wrappers' = [wrappers EXCEPT ![p] = @ - 1]
      /\ unrefs' = IF p = NULL THEN unrefs ELSE [unrefs EXCEPT ![p] = @ + 1]
      /\ nat' = r.nat
      /\ bufs' = r.bufs

Live == {h \in Handles : wrappers[h] > 0}

\* An Image going out of scope in the caller.
drop(t, h) ==
  /\ Idle(t)
  /\ h \in Live
  /\ ImageDrop(h)
  /\ cur' = [cur EXCEPT ![t] =
       [NewCall("drop", h) EXCEPT !.res = "Unit", !.log = <<"g_object_unref">>]]
  /\ UNCHANGED <<once, winner, initLog, pc, aborted, inp>>

\* What the native open calls can return: NULL, or a new object when one can
\* be allocated.
OpenResults == {NULL} \cup (IF FreeHandles = {} THEN {} ELSE {Fresh})

NewObj(parent) == [st |-> "live", refs |-> 1, parent |-> parent]

\* if ptr.is_null() { Err(from_vips()) } else { Ok(Image(ptr)) } (lib.rs:164-168)
OpenResult(ptr) == IF ptr = NULL THEN "ErrVips" ELSE "Ok"

\* Image::from_file after initialize() (lib.rs:162-168)
from_file_open(t) ==
  /\ ~aborted
  /\ pc[t] = "body"
  /\ cur[t].kind = "from_file"
  /\ pc' = [pc EXCEPT ![t] = "idle"]
  /\ IF ~CStringNew(cur[t].arg).ok
       THEN /\ cur' = [cur EXCEPT ![t] = [@ EXCEPT !.res = "ErrNul"]]
            /\ UNCHANGED <<nat, wrappers>>
       ELSE \E ptr \in OpenResults :
              /\ nat' = IF ptr = NULL THEN nat ELSE [nat EXCEPT ![ptr] = NewObj(NULL)]
              /\ wrappers' = IF OpenResult(ptr) = "Ok"
                               THEN [wrappers EXCEPT ![ptr] = @ + 1] ELSE wrappers
              /\ cur' = [cur EXCEPT ![t] = [@ EXCEPT
                   !.sig = <<ptr>>, !.res = OpenResult(ptr), !.out = ptr,
                   !.log = @ \o <<"vips_image_new_from_file">>
                             \o (IF OpenResult(ptr) = "Ok" THEN <<>> ELSE <<"vips_error_buffer">>)]]
  /\ UNCHANGED <<once, winner, initLog, unrefs, bufs, aborted, inp>>

\* Variant: the box is dropped when from_memory returns.
BufferDroppedAtReturn == [st |-> "freed", frees |-> 1]

\* The buffer after from_memory has returned (lib.rs:198-212): boxed, its raw
\* pointer handed to g_signal_connect_data, never dropped by from_memory.
BufferAfterConnect == [st |-> "boxed", frees |-> 0]

\* Image::from_memory after initialize() (lib.rs:185-218).  Connecting to a
\* NULL instance is refused by glib, so no handler ever receives the box.
from_memory_open(t) ==
  /\ ~aborted
  /\ pc[t] = "body"
  /\ cur[t].kind = "from_memory"
  /\ pc' = [pc EXCEPT ![t] = "idle"]
  /\ \E ptr \in OpenResults :
       /\ nat' = IF ptr = NULL THEN nat ELSE [nat EXCEPT ![ptr] = NewObj(NULL)]
       /\ bufs' = IF ptr = NULL THEN bufs ELSE [bufs EXCEPT ![ptr] = BufferAfterConnect]
       /\ wrappers' = IF OpenResult(ptr) = "Ok"
                        THEN [wrappers EXCEPT ![ptr] = @ + 1] ELSE wrappers
       /\ cur' = [cur EXCEPT ![t] = [@ EXCEPT
            !.sig = <<ptr>>, !.res = OpenResult(ptr), !.out = ptr,
            !.log = @ \o <<"vips_image_new_from_memory", "g_signal_connect_data">>
                      \o (IF OpenResult(ptr) = "Ok" THEN <<>> ELSE <<"vips_error_buffer">>)]]
  /\ UNCHANGED <<once, winner, initLog, unrefs, aborted, inp>>

\* ------------------------------------------------------- f64 arithmetic
\* A binary float <<m, e>> stands for m * 2^e with 2^(MantBits-1) <= m < 2^MantBits
\* (<<0, 0>> is zero).  f64 has a 53-bit significand; the model keeps MantBits.
RECURSIVE Pow2(_)
Pow2(n) == IF n = 0 THEN 1 ELSE 2 * Pow2(n - 1)

\* num/den (both positive) scaled into [2^(MantBits-1), 2^MantBits) by powers of two.
RECURSIVE Scale(_, _, _)
Scale(num, den, e) ==
  IF num >= den * Pow2(MantBits) THEN Scale(num, 2 * den, e + 1)
  ELSE IF num < den * Pow2(MantBits - 1) THEN Scale(2 * num, den, e - 1)
  ELSE [num |-> num, den |-> den, e |-> e]

\* f64::from(a) / f64::from(b) for integers a >= 0, b > 0: the conversions are
\* exact and the division rounds to nearest, ties to even.
FDiv(a, b) ==
  IF a = 0 THEN <<0, 0>>
  ELSE LET s == Scale(a, b, 0)
           q == s.num \div s.den
           r == s.num % s.den
           up == (2 * r > s.den) \/ (2 * r = s.den /\ q % 2 = 1)
           m == IF up THEN q + 1 ELSE q
       IN  IF m = Pow2(MantBits) THEN <<Pow2(MantBits - 1), s.e + 1>> ELSE <<m, s.e>>

\* The literal 1.0
FOne == <<Pow2(MantBits - 1), 1 - MantBits>>

\* ------------------------------------------------- variadic call bridge
\* Native arguments, each a tagged sequence of integers.
Ptr(p) == <<0, p>>
F64(x) == <<1>> \o x
CStr(bytes) == <<2>> \o bytes
Enum(k) == <<3, k>>
OutPtr == <<4>>

\* const NULL_TERM: *const c_char = ptr::null() (lib.rs:77)
NULL_TERM == Ptr(NULL)

KeyVscale == CStr(<<118, 115, 99, 97, 108, 101, 0>>)
KeyKernel == CStr(<<107, 101, 114, 110, 101, 108, 0>>)

\* Variant: each optional is put in front of the ones already expanded.
RECURSIVE var_args_rev(_, _, _)
var_args_rev(args, opts, term) ==
  IF opts = <<>> THEN Append(args, term)
  ELSE IF Head(opts).val.some
    THEN var_args_rev(SubSeq(args, 1, 3) \o <<Head(opts).key, Head(opts).val.val>>
                        \o SubSeq(args, 4, Len(args)), Tail(opts), term)
    ELSE var_args_rev(args, Tail(opts), term)

\* macro_rules! var_args (utils.rs:1-12): the argument list the expansion passes
\* to $func.  opts is the list of (value, key) optionals still to be expanded.
RECURSIVE var_args(_, _, _)
var_args(args, opts, term) ==
  IF opts = <<>> THEN Append(args, term)
  ELSE IF Head(opts).val.some
    THEN var_args(args \o <<Head(opts).key, Head(opts).val.val>>, Tail(opts), term)
    ELSE var_args(args, Tail(opts), term)

\* The vips_resize call of Image::resize (lib.rs:229-234); vscale and kernel
\* are options of native arguments.
ResizeCall(h, scale, vscale, kernel) ==
  var_args(<<Ptr(h), OutPtr, F64(scale)>>,
           <<[val |-> vscale, key |-> KeyVscale], [val |-> kernel, key |-> KeyKernel]>>,
           NULL_TERM)

\* ------------------------------------------------------ image operations
\* Status codes the native calls return.
Status == {0, -1, 1}

\* Variant: only negative codes are errors.
MatchRetNegative(ret) == IF ret >= 0 THEN "Ok" ELSE "ErrVips"

\* match ret { 0 => Ok(..), _ => Err(Error::from_vips()) }
MatchRet(ret) == IF ret = 0 THEN "Ok" ELSE "ErrVips"

\* What a native transform leaves in `out` for a status code: a new object on
\* success (when one can be allocated), the null it started with otherwise.
OutFor(ret) == IF ret = 0 THEN Fresh ELSE NULL
StatusNow == IF FreeHandles = {} THEN Status \ {0} ELSE Status

\* Variant: the result wraps the input's handle.
ReturnedAlias(h, out) == h

\* The wrapper a transform returns on success (lib.rs:237, 270, 281).
Returned(h, out) == out

\* The common shape of resize, crop and rotate (lib.rs:221-284): out starts
\* null, the native call fills it, Ok(out) is returned on status 0 and out is
\* dropped otherwise.  c is the call record with what happened before the
\* native call; fname is the native function.
Transform(t, c, h, fname) ==
  \E ret \in StatusNow, keep \in BOOLEAN :
    LET out == OutFor(ret)
        res == MatchRet(ret)
        n1 == IF out = NULL THEN nat
              ELSE [nat EXCEPT ![out] = NewObj(IF keep THEN h ELSE NULL),
                               ![h].refs = IF keep THEN @ + 1 ELSE @]
        kept == Returned(h, out)
        dropped == g_object_unref(n1, bufs, out)
    IN  /\ (out = NULL => ~keep)
        /\ IF res = "Ok"
             THEN /\ nat' = n1
                  /\ wrappers' = [wrappers EXCEPT ![kept] = @ + 1]
                  /\ UNCHANGED <<unrefs, bufs>>
             ELSE /\ nat' = dropped.nat
                  /\ bufs' = dropped.bufs
                  /\ unrefs' = IF out = NULL THEN unrefs ELSE [unrefs EXCEPT ![out] = @ + 1]
                  /\ UNCHANGED wrappers
        /\ cur' = [cur EXCEPT ![t] = [c EXCEPT
             !.sig = <<ret>>, !.res = res, !.out = IF res = "Ok" THEN kept ELSE NULL,
             !.log = @ \o <<fname>>
                       \o (IF res = "Ok" THEN <<>> ELSE <<"vips_error_buffer", "g_object_unref">>)]]
        /\ UNCHANGED <<once, winner, initLog, pc, aborted, inp>>

\* Image::resize (lib.rs:221-240)
ResizeBody(t, c, h, scale, vscale, kernel) ==
  Transform(t, [c EXCEPT !.calls = @ \o <<ResizeCall(h, scale, vscale, kernel)>>],
            h, "vips_resize")

Kernels == {None, Some(Enum(2))}

resize(t, h, scale, vscale, kernel) ==
  /\ Idle(t)
  /\ h \in Live
  /\ ResizeBody(t, NewCall("resize", [self |-> h, scale |-> scale, vscale |-> vscale, kernel |-> kernel]),
                h, scale, vscale, kernel)

\* Variant: vscale is passed whenever both targets are given.
ResizeToArgsAlways(width, height, W, H) ==
  IF width.some /\ height.some THEN
    [scale |-> FDiv(width.val, W), vscale |-> Some(F64(FDiv(height.val, H))), kernel |-> None]
  ELSE IF width.some THEN [scale |-> FDiv(width.val, W), vscale |-> None, kernel |-> None]
  ELSE IF height.some THEN [scale |-> FDiv(height.val, H), vscale |-> None, kernel |-> None]
  ELSE [scale |-> FOne, vscale |-> None, kernel |-> None]

\* The arguments Image::resize_to passes to self.resize (lib.rs:243-260), for
\* requested width and height (options of integers) on an image whose native
\* width and height are W and H.
ResizeToArgs(width, height, W, H) ==
  IF width.some /\ height.some THEN
    LET hscale == FDiv(width.val, W)
        vscale == FDiv(height.val, H)
    IN  IF hscale # vscale
          THEN [scale |-> hscale, vscale |-> Some(F64(vscale)), kernel |-> None]
          ELSE [scale |-> hscale, vscale |-> None, kernel |-> None]
  ELSE IF width.some THEN [scale |-> FDiv(width.val, W), vscale |-> None, kernel |-> None]
  ELSE IF height.some THEN [scale |-> FDiv(height.val, H), vscale |-> None, kernel |-> None]
  ELSE [scale |-> FOne, vscale |-> None, kernel |-> None]

\* The native accessors resize_to calls before resizing.
ResizeToReads(width, height) ==
  (IF width.some THEN <<"vips_image_get_width">> ELSE <<>>)
    \o (IF height.some THEN <<"vips_image_get_height">> ELSE <<>>)

Targets == {None} \cup {Some(n) : n \in 0..MaxDim}

\* Image::resize_to (lib.rs:242-261); W and H are what the native accessors
\* report for the image.
resize_to(t, h, width, height, W, H) ==
  /\ Idle(t)
  /\ h \in Live
  /\ LET a == ResizeToArgs(width, height, W, H)
         c == [NewCall("resize_to", [self |-> h, width |-> width, height |-> height, W |-> W, H |-> H])
                 EXCEPT !.log = ResizeToReads(width, height)]
     IN  ResizeBody(t, c, h, a.scale, a.vscale, a.kernel)

\* Image::crop (lib.rs:263-273)
crop(t, h) ==
  /\ Idle(t)
  /\ h \in Live
  /\ Transform(t, NewCall("crop", <<>>), h, "vips_crop")

\* Image::rotate (lib.rs:275-284)
rotate(t, h) ==
  /\ Idle(t)
  /\ h \in Live
  /\ Transform(t, NewCall("rotate", <<>>), h, "vips_rot")

\* Image::write_to_file (lib.rs:286-293)
write_to_file(t, h, path) ==
  /\ Idle(t)
  /\ h \in Live
  /\ IF ~CStringNew(path).ok
       THEN cur' = [cur EXCEPT ![t] = [NewCall("write_to_file", path) EXCEPT !.res = "ErrNul"]]
       ELSE \E ret \in Status :
              cur' = [cur EXCEPT ![t] = [NewCall("write_to_file", path) EXCEPT
                !.sig = <<ret>>, !.res = MatchRet(ret),
                !.log = <<"vips_image_write_to_file">>
                          \o (IF MatchRet(ret) = "Ok" THEN <<>> ELSE <<"vips_error_buffer">>)]]
  /\ UNCHANGED <<once, winner, initLog, pc, nat, wrappers, unrefs, bufs, aborted, inp>>

\* The output allocation of to_buffer: made says whether the native writer
\* stored an allocation in (buf, size); owner is who must free it.
NativeAlloc(made) == [made |-> made, owner |-> IF made THEN "native" ELSE "nobody", frees |-> 0]

\* Box::from_raw(slice::from_raw_parts_mut(buf, size)).into_vec() (lib.rs:309-311)
Claim(a) == IF a.made THEN [a EXCEPT !.owner = "vec"] ELSE a

\* A Vec<u8> going out of scope.
VecDrop(a) == IF a.owner = "vec" THEN [a EXCEPT !.owner = "nobody", !.frees = @ + 1] ELSE a

\* Variant: the status is inspected first and the error returns early.
ToBufferFinishLate(ret, a) ==
  IF MatchRet(ret) = "Ok"
    THEN [Claim(a) EXCEPT !.owner = IF a.made THEN "caller" ELSE @]
    ELSE a

\* lib.rs:309-316: the allocation is claimed, then the status decides whether
\* the Vec is returned or dropped.
ToBufferFinish(ret, a) ==
  LET out == Claim(a)
  IN  IF MatchRet(ret) = "Ok" THEN [out EXCEPT !.owner = IF out.made THEN "caller" ELSE @]
      ELSE VecDrop(out)

\* Image::to_buffer (lib.rs:295-318).  The native writer stores an allocation
\* on success and may or may not store one on failure; when it stores none,
\* slice::from_raw_parts_mut is called on a null pointer, which a build either
\* lets through (an empty Vec) or traps with an abort.
to_buffer(t, h, suffix) ==
  /\ Idle(t)
  /\ h \in Live
  /\ IF ~CStringNew(suffix).ok
       THEN /\ cur' = [cur EXCEPT ![t] = [NewCall("to_buffer", suffix) EXCEPT !.res = "ErrNul"]]
            /\ UNCHANGED aborted
       ELSE \E ret \in Status, made \in BOOLEAN, trap \in BOOLEAN :
              /\ (ret = 0 => made)
              /\ (trap => ~made)
              /\ aborted' = trap
              /\ cur' = [cur EXCEPT ![t] = [NewCall("to_buffer", suffix) EXCEPT
                   !.sig = <<ret>>,
                   !.res = IF trap THEN "abort" ELSE MatchRet(ret),
                   !.alloc = IF trap THEN NativeAlloc(made) ELSE ToBufferFinish(ret, NativeAlloc(made)),
                   !.log = <<"vips_image_write_to_buffer">>
                             \o (IF trap \/ MatchRet(ret) = "Ok" THEN <<>> ELSE <<"vips_error_buffer">>)]]
  /\ UNCHANGED <<once, winner, initLog, pc, nat, wrappers, unrefs, bufs, inp>>

\* ------------------------------------------------------- specifications
\* The initialization guard under concurrent first use.
GateNext ==
  \E t \in Threads :
    \/ \E opts \in InitOptionsTried : initialize_with_options(t, opts)
    \/ from_file(t, PathOk)
    \/ from_memory(t)
    \/ call_once_closure(t)
    \/ call_once_wake(t)
    \/ from_file_open(t)
    \/ from_memory_open(t)

Spec == Init /\ [][GateNext]_vars

\* The same with the scheduler's guarantee: a thread that runs the closure, or
\* that call_once can release, is eventually scheduled.
FairSpec == Spec /\ \A t \in Threads : WF_vars(call_once_closure(t) \/ call_once_wake(t))

\* One caller building, transforming, writing and dropping images.
ImageNext ==
  \/ \E path \in {PathOk, PathNul} : from_file(1, path)
  \/ from_memory(1)
  \/ call_once_closure(1)
  \/ from_file_open(1)
  \/ from_memory_open(1)
  \/ \E h \in Handles :
       \/ drop(1, h)
       \/ \E v \in {None, Some(F64(FOne))}, k \in Kernels : resize(1, h, FOne, v, k)
       \/ crop(1, h)
       \/ rotate(1, h)
       \/ \E path \in {PathOk, PathNul} : write_to_file(1, h, path)
       \/ \E suffix \in {SuffixOk, SuffixNul} : to_buffer(1, h, suffix)

SpecImage == Init /\ [][ImageNext]_vars

\* resize_to as a function of the image size and the requested size: the state
\* after from_file(PathOk) has returned image 1 on thread 1, for every size the
\* native accessors can report and every target the caller can ask for.
InitResize ==
  /\ once = "Complete"
  /\ winner = 1
  /\ initLog = InitClosureCalls(None)
  /\ pc = [t \in Threads |-> "idle"]
  /\ cur = [t \in Threads |->
       IF t = 1
         THEN [NewCall("from_file", PathOk) EXCEPT
                 !.sig = <<1>>, !.res = "Ok", !.out = 1,
                 !.log = Names(InitClosureCalls(None)) \o <<"vips_image_new_from_file">>]
         ELSE NoCall]
  /\ nat = [h \in Handles |-> IF h = 1 THEN NewObj(NULL) ELSE FreeObj]
  /\ wrappers = [p \in {NULL} \cup Handles |-> IF p = 1 THEN 1 ELSE 0]
  /\ unrefs = [h \in Handles |-> 0]
  /\ bufs = [h \in Handles |-> NoBuf]
  /\ aborted = FALSE
  /\ inp \in [W : 1..MaxDim, H : 1..MaxDim, width : Targets, height : Targets]

ResizeNext ==
  \E h \in Handles :
    \/ resize_to(1, h, inp.width, inp.height, inp.W, inp.H)
    \/ drop(1, h)

SpecResize == InitResize /\ [][ResizeNext]_vars

\* ------------------------------------------------------------- claims
CountCalls(calls, f) == Cardinality({i \in 1..Len(calls) : calls[i][1] = f})

InitFunctions == {"vips_init", "vips_leak_set", "atexit"}

Invokes(c, fs) == \E i \in 1..Len(c.log) : c.log[i] \in fs

\* C1: whatever calls are made and however they interleave, vips_init is
\* invoked at most once and, once the gate is complete, exactly once, together
\* with at most one leak-check toggle and one atexit registration, all by the
\* call that won the gate; no other call invokes any of the three.
InitExactlyOnce ==
  /\ CountCalls(initLog, "vips_init") <= 1
  /\ CountCalls(initLog, "vips_leak_set") <= 1
  /\ CountCalls(initLog, "atexit") <= 1
  /\ (once = "Incomplete" => initLog = <<>>)
  /\ (once = "Complete" =>
        CountCalls(initLog, "vips_init") = 1 /\ CountCalls(initLog, "atexit") = 1)
  /\ \A t \in Threads :
       Invokes(cur[t], InitFunctions) =>
         /\ t = winner
         /\ SubSeq(cur[t].log, 1, Len(initLog)) = Names(initLog)
         /\ \A i \in (Len(initLog) + 1)..Len(cur[t].log) : cur[t].log[i] \notin InitFunctions

\* A later initialize_with_options asking for leak checks has returned, and no
\* leak-check toggle was made.
InitExactlyOnceWitness ==
  \E t \in Threads :
    /\ t # winner
    /\ once = "Complete"
    /\ cur[t].kind = "initialize_with_options"
    /\ cur[t].res = "Unit"
    /\ cur[t].arg.val.leak_checks_on.some
    /\ CountCalls(initLog, "vips_leak_set") = 0
    /\ CountCalls(initLog, "vips_init") = 1

\* The call of thread t is an initialize_with_options that won the gate with a
\* program name holding a nul byte, and its closure has run.
WonWithNulName(t) ==
  /\ cur[t].kind = "initialize_with_options"
  /\ Invokes(cur[t], {"vips_init"})
  /\ cur[t].arg.val.name.some
  /\ HasNul(cur[t].arg.val.name.val)

UniqueOwnerOneRelease ==
  \A h \in Handles :
    /\ wrappers[h] <= 1
    /\ unrefs[h] <= 1
    /\ (nat[h].st = "free" => wrappers[h] = 0 /\ unrefs[h] = 0)
    /\ (nat[h].st # "free" => wrappers[h] + unrefs[h] = 1)

\* A transform's result is live while the image it came from has been dropped
\* and released once, after a failed transform dropped its null output.
UniqueOwnerOneReleaseWitness ==
  \E h, g \in Handles :
    /\ h # g
    /\ unrefs[h] = 1 /\ wrappers[h] = 0
    /\ wrappers[g] = 1 /\ unrefs[g] = 0
    /\ nat[g].parent = h
    /\ cur[1].kind \in {"resize", "crop", "rotate"}
    /\ cur[1].res = "ErrVips"

HeldByDerived(h) == \E g \in Handles : nat[g].st = "live" /\ nat[g].parent = h

OpenKinds == {"from_file", "from_memory"}
StatusKinds == {"resize", "resize_to", "crop", "rotate", "write_to_file", "to_buffer"}

NulKinds == {"from_file", "write_to_file", "to_buffer"}

\* C6 as stated: a from_file, write_to_file or to_buffer that returns the
\* NulError has invoked no native function at all.
NulErrorBeforeAnyNative ==
  \A t \in Threads :
    cur[t].kind \in NulKinds /\ cur[t].res = "ErrNul" => cur[t].log = <<>>

\* C6 amended: a path or suffix with a nul byte makes the operation return the
\* NulError; write_to_file and to_buffer have then invoked no native function,
\* and from_file has invoked none but those of the one-time initialization,
\* which it runs before it converts the path when its call wins the gate.
NulErrorBeforeOwnNative ==
  \A t \in Threads :
    LET c == cur[t] IN
      c.kind \in NulKinds /\ pc[t] = "idle" =>
        /\ (HasNul(c.arg) <=> c.res = "ErrNul")
        /\ (c.res = "ErrNul" /\ c.kind # "from_file" => c.log = <<>>)
        /\ (c.res = "ErrNul" /\ c.kind = "from_file" =>
              c.log = IF Invokes(c, InitFunctions) THEN Names(initLog) ELSE <<>>)

NulErrorBeforeOwnNativeWitness ==
  /\ cur[1].kind = "from_file"
  /\ cur[1].res = "ErrNul"
  /\ cur[1].log = <<"vips_init", "atexit">>

\* C7: resize_to issues exactly one vips_resize call: with both targets and
\* unequal quotients, scale width/W and vscale height/H; with both targets and
\* equal quotients, scale width/W alone; with one target, its quotient alone;
\* with none, 1.0 alone; never a kernel.  The quotients are f64 quotients.
ResizeToCall ==
  \A t \in Threads :
    LET c == cur[t] IN
      c.kind = "resize_to" =>
        LET a == c.arg
            head == <<Ptr(a.self), OutPtr>>
            expected ==
              CASE a.width.some /\ a.height.some
                     /\ FDiv(a.width.val, a.W) # FDiv(a.height.val, a.H) ->
                     head \o <<F64(FDiv(a.width.val, a.W)), KeyVscale,
                               F64(FDiv(a.height.val, a.H)), NULL_TERM>>
                [] a.width.some /\ a.height.some
                     /\ FDiv(a.width.val, a.W) = FDiv(a.height.val, a.H) ->
                     head \o <<F64(FDiv(a.width.val, a.W)), NULL_TERM>>
                [] a.width.some /\ ~a.height.some ->
                     head \o <<F64(FDiv(a.width.val, a.W)), NULL_TERM>>
                [] ~a.width.some /\ a.height.some ->
                     head \o <<F64(FDiv(a.height.val, a.H)), NULL_TERM>>
                [] ~a.width.some /\ ~a.height.some ->
                     head \o <<F64(FDiv(1, 1)), NULL_TERM>>
        IN  /\ c.calls = <<expected>>
            /\ Cardinality({i \in 1..Len(c.log) : c.log[i] = "vips_resize"}) = 1
            /\ \A i \in 1..Len(c.calls[1]) : c.calls[1][i] # KeyKernel

\* Both targets given, in the image's own proportion but not its size: one
\* call, without vscale.
ResizeToCallWitness ==
  /\ cur[1].kind = "resize_to"
  /\ cur[1].arg.width = Some(2) /\ cur[1].arg.height = Some(4)
  /\ cur[1].arg.W = 1 /\ cur[1].arg.H = 2
  /\ Len(cur[1].calls[1]) = 4
  /\ cur[1].res = "Ok"

Present(o, key) == IF o.some THEN <<key, o.val>> ELSE <<>>

Positions(args, key) == {i \in 1..Len(args) : args[i] = key}

\* C8: resize passes vips_resize exactly one argument list: the three required
\* arguments, then key and value of vscale if it is present, then key and
\* value of kernel if it is present, then the null terminator; an absent
\* optional adds nothing, no key appears twice, vscale precedes kernel.
VarArgsList ==
  \A t \in Threads :
    LET c == cur[t] IN
      c.kind = "resize" =>
        LET a == c.arg
            l == c.calls[1]
            n == (IF a.vscale.some THEN 1 ELSE 0) + (IF a.kernel.some THEN 1 ELSE 0)
        IN  /\ Len(c.calls) = 1
            /\ l = <<Ptr(a.self), OutPtr, F64(a.scale)>>
                     \o Present(a.vscale, KeyVscale) \o Present(a.kernel, KeyKernel)
                     \o <<NULL_TERM>>
            /\ Len(l) = 4 + 2 * n
            /\ l[Len(l)] = NULL_TERM
            /\ Cardinality(Positions(l, KeyVscale)) = (IF a.vscale.some THEN 1 ELSE 0)
            /\ Cardinality(Positions(l, KeyKernel)) = (IF a.kernel.some THEN 1 ELSE 0)
            /\ \A i \in Positions(l, KeyVscale), j \in Positions(l, KeyKernel) : i < j

VarArgsListWitness ==
  /\ cur[1].kind = "resize"
  /\ cur[1].arg.vscale.some
  /\ cur[1].arg.kernel.some
  /\ Len(cur[1].calls[1]) = 8
  /\ cur[1].res = "Ok"

\* C9: when to_buffer returns and the native writer stored an allocation, the
\* allocation was claimed before the status was looked at: on Ok the caller
\* owns it and it was not freed, on Err it was freed exactly once and nobody
\* owns it; it is never left with the native side.
ToBufferClaims ==
  \A t \in Threads :
    LET c == cur[t] IN
      c.kind = "to_buffer" /\ c.res \in {"Ok", "ErrVips"} =>
        /\ (c.res = "Ok" => c.alloc.made /\ c.alloc.owner = "caller" /\ c.alloc.frees = 0)
        /\ (c.res = "ErrVips" /\ c.alloc.made =>
              c.alloc.owner = "nobody" /\ c.alloc.frees = 1)
        /\ (~c.alloc.made => c.alloc.frees = 0)
        /\ c.alloc.owner # "native"

ToBufferClaimsWitness ==
  /\ cur[1].kind = "to_buffer"
  /\ cur[1].res = "ErrVips"
  /\ cur[1].alloc.made
  /\ cur[1].alloc.frees = 1

Opened(c) == Invokes(c, {"vips_image_new_from_file", "vips_image_new_from_memory"})

\* C10: no caller is past the initialization gate, and no native open call has
\* been issued, before the winner's native init has completed; a caller that
\* lost the race is not blocked forever.
GateBeforeOpen ==
  /\ [](\A t \in Threads :
          /\ (pc[t] = "body" \/ Opened(cur[t]) \/ cur[t].res \in {"Unit", "Ok", "ErrVips", "ErrNul"}
                => once = "Complete" /\ CountCalls(initLog, "vips_init") = 1)
          /\ (pc[t] = "waiting" => once # "Incomplete" /\ t # winner))
  /\ \A t \in Threads : (pc[t] = "waiting") ~> (pc[t] # "waiting")

\* A caller that lost the race is still blocked while the winner has finished.
GateBeforeOpenWitness ==
  \E t \in Threads :
    /\ pc[t] = "waiting"
    /\ once = "Complete"
    /\ cur[t].kind \in OpenKinds
    /\ cur[winner].kind = "initialize_with_options"

====
